---- MODULE Spec2Model ----
(***************************************************************************)
(* Model of clarity/data/scene_renderer_cec1.py: the Renderer class        *)
(* (apply_ramp, apply_brir, compute_snr, read_signal, render) and          *)
(* check_scene_exists.                                                     *)
(*                                                                         *)
(* Representation.  Durations are held in tenths of a second, so that      *)
(* int(duration * sample_rate) is (duration * sample_rate) \div 10.        *)
(* In the sample-level model of apply_ramp a sample x is held as the       *)
(* integer 16 * x and a ramp weight w as the integer 4 * w, so that the    *)
(* two multiplications a sample can undergo stay exact.  In render a       *)
(* signal is held by its shape (rows, columns) and by the symbolic         *)
(* history of what was applied to it.                                      *)
(***************************************************************************)
EXTENDS Integers, Sequences, FiniteSets, TLC

VARIABLES
    self,               \* the Renderer's fields
    dataset,            \* the input tree and scene metadata renders draw from
    probe,              \* a call of one function on its own: arguments, result
    pc,                 \* where render() is
    args,               \* render()'s arguments
    fs,                 \* the output files that exist
    fs0,                \* fs when the current render() was called
    outputs,            \* render()'s list of (filename, signal)
    written,            \* the filenames render() has written, in order
    target,             \* render()'s padded target
    interferer_signal,  \* render()'s ramped interferer
    snr_ref,            \* render()'s reference gain
    target_brir,        \* render()'s target_brir
    brirs,              \* the target BRIR read for each channel, in order
    idx,                \* position of the channel loop in self.channels
    diag,               \* whether the debug note of line 232 was logged
    pad_len,            \* the length render() asked pad() for
    failure,            \* the error render() raised
    checked,            \* the last check_scene_exists call and its result
    ops_left            \* render() calls and file deletions still to come

vars == <<self, dataset, probe, pc, args, fs, fs0, outputs, written, target,
          interferer_signal, snr_ref, target_brir, brirs, idx, diag, pad_len,
          failure, checked, ops_left>>

\* ------------------------------------------------------------------ bounds

\* Largest num_channels a Renderer is constructed with.
MaxChannels == 2
\* Longest signal handed to apply_ramp and apply_brir on their own.
MaxSigLen == 4
\* Longest BRIR handed to apply_brir on its own.
MaxBrirLen == 4
\* Longest signal handed to compute_snr on its own.
MaxSnrLen == 5
\* render() calls and file deletions in one behaviour of the storage model.
MaxOps == 3

\* ------------------------------------------------------- values and helpers

\* Python's None, and a value that is set: a sequence of length 0 or 1.
None == <<>>

Some(v) == <<v>>

Min(a, b) == IF a <= b THEN a ELSE b

Max(a, b) == IF a >= b THEN a ELSE b

\* int(x) of a non-negative duration (tenths of a second) times a rate.
IntOf(tenths, rate) == (tenths * rate) \div 10

Err(kind) == [ok |-> FALSE, err |-> kind]

\* Sequences over S of length at most n.
SeqsUpTo(S, n) == UNION {[1..k -> S] : k \in 0..n}

Reverse(s) == [i \in 1..Len(s) |-> s[Len(s) + 1 - i]]

\* Python's x[a:b] for a, b >= 0 on a length n: the number of elements.
SliceLen(n, a, b) == Max(0, Min(b, n) - Min(a, n))

\* Python's x[pre:-post] with pre >= 0: -post is 0 when post = 0, so the stop is
\* index 0; a positive post counts from the end, clipped at 0.
TrimLen(n, pre, post) ==
    IF post > 0 THEN SliceLen(n, pre, Max(n - post, 0))
    ELSE IF post = 0 THEN SliceLen(n, pre, 0)
    ELSE SliceLen(n, pre, Min(0 - post, n))

\* ------------------------------------------------------------ Renderer.__init__

\* self.channels: [] for num_channels = 0, else [1, ..., num_channels, 0].
ChannelsNoEardrum(num_channels) == [i \in 1..num_channels |-> i]

Channels(num_channels) ==
    IF num_channels = 0 THEN <<>>
    ELSE [i \in 1..num_channels |-> i] \o <<0>>

Renderer(num_channels, sample_rate, ramp_dur, tail_dur, pre_dur, post_dur) ==
    [sample_rate |-> sample_rate,
     ramp_duration |-> ramp_dur,
     n_tail |-> IntOf(tail_dur, sample_rate),
     pre_duration |-> pre_dur,
     post_duration |-> post_dur,
     num_channels |-> num_channels,
     channels |-> Channels(num_channels)]

\* -------------------------------------------------------- Renderer.apply_ramp

\* (cos(linspace(pi, 2 pi, W)) + 1) / 2 in quarters, exact for W <= 4:
\* [], [0], [0, 1], [0, 1/2, 1], [0, 1/4, 3/4, 1].
HalfCosine(W) ==
    CASE W = 0 -> <<>>
      [] W = 1 -> <<0>>
      [] W = 2 -> <<0, 4>>
      [] W = 3 -> <<0, 2, 4>>
      [] W = 4 -> <<0, 1, 3, 4>>

\* x[lo+1 .. lo+m] *= w (1-based here), as numpy does it in place: the operand w
\* must broadcast to the slice's shape (m,), i.e. Len(w) = m, or Len(w) = 1 (one
\* weight for every element); anything else is a ValueError.
MulSlice(x, lo, m, w) ==
    IF Len(w) = m \/ Len(w) = 1
    THEN [ok |-> TRUE,
          val |-> [i \in 1..Len(x) |->
                     IF i > lo /\ i <= lo + m
                     THEN (x[i] * w[IF Len(w) = 1 THEN 1 ELSE i - lo]) \div 4
                     ELSE x[i]]]
    ELSE Err("ValueError")

\* The slice signal_ramped[-W:] : for W = 0 it is [-0:] = [0:], the whole array.
TailStart(N, W) == IF W = 0 THEN 0 ELSE Max(N - W, 0)

\* Returns the ramped copy (val) and what the caller's array holds afterwards
\* (arg): np.array(signal) copies, so the caller's array is never touched.
apply_ramp(signal, ramp_duration) ==
    LET W == IntOf(ramp_duration, self.sample_rate)
        ramp == HalfCosine(W)
        N == Len(signal)
        head == MulSlice(signal, 0, Min(W, N), ramp)
        lo == TailStart(N, W)
        tail == IF head.ok THEN MulSlice(head.val, lo, N - lo, Reverse(ramp))
                ELSE head
    IN  IF tail.ok THEN [ok |-> TRUE, val |-> tail.val, arg |-> signal]
        ELSE [ok |-> FALSE, err |-> tail.err, arg |-> signal]

\* The shape question alone, for a mono signal of N samples: does apply_ramp
\* return?  (The two in-place multiplications of lines 143-144 broadcast.)
RampReturns(N, W) ==
    LET m == Min(W, N)
        lo == TailStart(N, W)
    IN  /\ (W = m \/ W = 1)
        /\ (W = N - lo \/ W = 1)

\* -------------------------------------------------------- Renderer.apply_brir

\* A signal or BRIR by shape: rows, and cols = 1 for a 1-D array (a mono file),
\* 2 for an (n, 2) array.
Shape(rows, cols) == [rows |-> rows, cols |-> cols]

\* len(np.shape(np.squeeze(a))): squeeze drops every axis of length 1.
SqueezedRank(a) ==
    (IF a.rows = 1 THEN 0 ELSE 1) + (IF a.cols = 2 THEN 1 ELSE 0)

Rank(a) == IF a.cols = 2 THEN 2 ELSE 1

\* scipy's convolve(..., mode="full", method="fft") of lengths n and m.
FullConvLen(n, m) == IF n = 0 \/ m = 0 THEN 0 ELSE n + m - 1

apply_brir_notail(signal, brir) ==
    IF Rank(signal) \in {1, 2} /\ SqueezedRank(brir) = 2
    THEN [ok |-> TRUE,
          rows |-> Min(signal.rows, FullConvLen(signal.rows, brir.rows)),
          cols |-> 2]
    ELSE Err("UnboundLocalError")

\* Lines 159-171.  With neither branch taken the error is only logged and
\* signal_l is unbound at line 170: an UnboundLocalError.
apply_brir(signal, brir) ==
    LET output_len == signal.rows + self.n_tail
    IN  IF Rank(signal) \in {1, 2} /\ SqueezedRank(brir) = 2
        THEN [ok |-> TRUE,
              rows |-> Min(output_len, FullConvLen(signal.rows, brir.rows)),
              cols |-> 2]
        ELSE Err("UnboundLocalError")

\* ------------------------------------------------------- Renderer.compute_snr

\* better_ear_speechweighted_snr (clarity.data.utils): an uninterpreted term
\* over the two segments it is given.
better_ear_speechweighted_snr(segment_target, segment_noise) ==
    <<"snr", segment_target, segment_noise>>

\* A segment of a signal: which signal, and how many rows of it.
Segment(sig, n) == [of |-> sig, rows |-> n]

\* Lines 189-202: the two parameters are overwritten from the configured
\* durations before they are read.
compute_snr(t, noise, pre_samples, post_samples) ==
    LET pre == IntOf(self.pre_duration, self.sample_rate)
        post == IntOf(self.post_duration, self.sample_rate)
        segment_target == TrimLen(t.rows, pre, post)
        segment_noise == TrimLen(noise.rows, pre, post)
    IN  IF segment_target # segment_noise THEN Err("ValueError")
        ELSE [ok |-> TRUE,
              snr |-> better_ear_speechweighted_snr(
                          Segment(t.id, segment_target),
                          Segment(noise.id, segment_noise)),
              pre |-> pre, post |-> post]

\* ------------------------------------------------------ Renderer.read_signal

\* A wav file: whether SoundFile opens it, its channels, its rate, its frames.
WavFile(readable, channels, samplerate, frames) ==
    [readable |-> readable, channels |-> channels,
     samplerate |-> samplerate, frames |-> frames]

\* Lines 64-87.  offset is in samples when offset_is_samples, else in whole
\* seconds; nsamples = -1 reads to the end.  The offsets used lie inside the file.
read_signal(file, offset, nsamples, nchannels, offset_is_samples) ==
    IF ~file.readable THEN Err("Unable to read")
    ELSE IF nchannels \notin {0, file.channels} THEN Err("channels")
    ELSE IF file.samplerate # self.sample_rate THEN Err("Sampling rate")
    ELSE LET off == IF offset_is_samples THEN offset
                    ELSE offset * file.samplerate
             avail == Max(file.frames - off, 0)
         IN  [ok |-> TRUE,
              rows |-> IF nsamples = -1 THEN avail ELSE Min(nsamples, avail),
              cols |-> file.channels]

\* ------------------------------------------------- clarity.data.utils helpers

\* pad(signal, length): zero-extends signal to length rows; it cannot shorten.
pad(signal, length) ==
    IF length >= signal.rows
    THEN [ok |-> TRUE, rows |-> length, cols |-> signal.cols]
    ELSE Err("AssertionError")

\* sum_signals([a, b]): an uninterpreted term over the two signals.
sum_signals(a, b) == [id |-> <<"sum", a.id, b.id>>, parts |-> <<a, b>>]

\* ----------------------------------------------------------- output filenames

\* f"{prefix}_{role}.wav" and f"{prefix}_{role}{channel}.wav", where prefix is
\* f"{output_path}/{scene}" for the one output_path: the pair or triple of the
\* parts that vary.
PlainName(prefix, role) == <<prefix, role>>

ChannelName(prefix, role, channel) == <<prefix, role, channel>>

\* -------------------------------------------------------------- Renderer.render

\* A signal render() holds: what it is, its shape, the factors multiplied in.
Signal(id, shape) ==
    [id |-> id, rows |-> shape.rows, cols |-> shape.cols, gain |-> <<>>]

Scaled(signal, factor) == [signal EXCEPT !.gain = Append(@, factor)]

Output(filename, signal) == [name |-> filename, signal |-> signal]

\* apply_ramp on a mono signal held by its shape.
apply_ramp_shape(signal, ramp_duration) ==
    IF RampReturns(signal.rows, IntOf(ramp_duration, self.sample_rate))
    THEN [ok |-> TRUE, rows |-> signal.rows, cols |-> signal.cols]
    ELSE Err("ValueError")

\* Line 231 compares len(target) with len(interferer): interferer is the
\* interferer's name, a string, not interferer_signal.
length_note(padded_target, interferer, signal) ==
    padded_target.rows # Len(interferer)

\* Lines 224-243: load and pad the target, load the interferer, ramp it.  The
\* targets and interferers of the input tree are mono: np.pad with one
\* (pre, post) pair pads every axis of a two-column target, and the ramp of
\* line 143 does not broadcast over the rows of a two-column interferer.
load(target_file, interferer_file, interferer, offset, pre_samples, post_samples) ==
    LET t == read_signal(target_file, 0, -1, 0, FALSE)
        padded == Shape(t.rows + pre_samples + post_samples, t.cols)
        i == read_signal(interferer_file, offset, padded.rows, 0, TRUE)
        ramped == apply_ramp_shape(i, self.ramp_duration)
    IN  IF ~t.ok THEN [ok |-> FALSE, err |-> t.err, diag |-> FALSE]
        ELSE IF ~i.ok THEN [ok |-> FALSE, err |-> i.err, diag |-> FALSE]
        ELSE IF ~ramped.ok
             THEN [ok |-> FALSE, err |-> ramped.err,
                   diag |-> length_note(padded, interferer, i)]
        ELSE [ok |-> TRUE,
              target |-> Signal("target", padded),
              interferer_signal |-> Signal("interferer", ramped),
              diag |-> length_note(padded, interferer, i)]

reference_gain_per_channel(ref, t, i, pre_samples, post_samples) ==
    compute_snr(t, i, pre_samples, post_samples)

\* Lines 260-269: snr_ref is computed while it is None, and kept afterwards.
reference_gain(ref, t, i, pre_samples, post_samples) ==
    IF ref = None
    THEN compute_snr(t, i, pre_samples, post_samples)
    ELSE [ok |-> TRUE, snr |-> ref[1]]

\* 10 ** ((-snr_dB) / 20), uninterpreted.
db_factor(snr_dB) == <<"10**", 0 - snr_dB, 20>>

\* Lines 247-283: one pass of the channel loop.
channel_pass(channel, target_brir_file, interferer_brir_file) ==
    LET tb == read_signal(target_brir_file, 0, -1, 0, FALSE)
        ib == read_signal(interferer_brir_file, 0, -1, 0, FALSE)
        t == apply_brir(target, tb)
        i == apply_brir(interferer_signal, ib)
        target_at_ear == Signal(<<"target_at_ear", channel>>, t)
        interferer_at_ear == Signal(<<"interferer_at_ear", channel>>, i)
        ref == reference_gain(snr_ref, target_at_ear, interferer_at_ear,
                              args.pre_samples, args.post_samples)
        scaled == Scaled(Scaled(interferer_at_ear, ref.snr),
                         db_factor(args.snr_dB))
        prefix == args.scene
    IN  IF ~tb.ok THEN tb
        ELSE IF ~ib.ok THEN ib
        ELSE IF ~t.ok THEN t
        ELSE IF ~i.ok THEN i
        ELSE IF ~ref.ok
             THEN [ok |-> FALSE, err |-> "compute_snr",
                   brir |-> [channel |-> channel, rows |-> tb.rows,
                             irows |-> ib.rows]]
        ELSE [ok |-> TRUE,
              target_brir |-> Signal(<<"target_brir", channel>>, tb),
              brir |-> [channel |-> channel, rows |-> tb.rows,
                        irows |-> ib.rows],
              snr_ref |-> Some(ref.snr),
              outputs |->
                <<Output(ChannelName(prefix, "mixed_CH", channel),
                         sum_signals(target_at_ear, scaled)),
                  Output(ChannelName(prefix, "target_CH", channel),
                         target_at_ear),
                  Output(ChannelName(prefix, "interferer_CH", channel),
                         scaled)>>]

pad_length_first(brir, read) ==
    IF read = <<>> THEN brir.rows ELSE read[1].rows

\* Line 295: len(target_brir), the target BRIR bound last.
pad_length(brir, read) == brir.rows

\* Lines 285-298: the anechoic reference.
anechoic(ch0_file, anechoic_file) ==
    LET loaded == read_signal(ch0_file, 0, -1, 0, FALSE)
        brir == IF self.channels = <<>>
                THEN Signal(<<"target_brir", 0>>, loaded)
                ELSE target_brir
        read == IF self.channels = <<>>
                THEN <<[channel |-> 0, rows |-> loaded.rows,
                        irows |-> loaded.rows]>>
                ELSE brirs
        anechoic_brir == read_signal(anechoic_file, 0, -1, 0, FALSE)
        length == pad_length(brir, read)
        anechoic_brir_pad == pad(anechoic_brir, length)
        target_anechoic == apply_brir(target, anechoic_brir_pad)
    IN  IF self.channels = <<>> /\ ~loaded.ok THEN loaded
        ELSE IF ~anechoic_brir.ok THEN anechoic_brir
        ELSE IF ~anechoic_brir_pad.ok
             THEN [ok |-> FALSE, err |-> anechoic_brir_pad.err,
                   pad_len |-> Some(length), brirs |-> read]
        ELSE IF ~target_anechoic.ok
             THEN [ok |-> FALSE, err |-> target_anechoic.err,
                   pad_len |-> Some(length), brirs |-> read]
        ELSE [ok |-> TRUE,
              target_brir |-> brir,
              brirs |-> read,
              pad_len |-> Some(length),
              output |-> Output(PlainName(args.scene, "target_anechoic"),
                                Signal("target_anechoic", target_anechoic))]

\* The names lines 239-298 put in outputs, for a Renderer of num_channels.
render_names(scene, num_channels) ==
    LET channels == Channels(num_channels)
    IN  {PlainName(scene, "target"), PlainName(scene, "interferer"),
         PlainName(scene, "target_anechoic")}
        \cup UNION {{ChannelName(scene, "mixed_CH", channels[k]),
                     ChannelName(scene, "target_CH", channels[k]),
                     ChannelName(scene, "interferer_CH", channels[k])} :
                    k \in 1..Len(channels)}

\* Lines 108-126 with floating_point = True: soundfile.write creates or
\* replaces the file.
write_signal(files, filename, signal, sample_rate) == files \cup {filename}

write_turn_early == pc \in {"channels", "write"} /\ Len(written) < Len(outputs)

\* Lines 300-302: the write loop runs after the whole list has been built.
write_turn == pc = "write" /\ Len(written) < Len(outputs)

\* --------------------------------------------------------- check_scene_exists

files_to_check_no_eardrum(scene, num_channels) ==
    LET channels == IF num_channels = 0 THEN <<>>
                    ELSE [i \in 1..num_channels |-> i]
        pattern == scene
        per(ch) == <<ChannelName(pattern, "mixed_CH", ch),
                     ChannelName(pattern, "interferer_CH", ch),
                     ChannelName(pattern, "target_CH", ch)>>
        extend[k \in 0..Len(channels)] ==
            IF k = 0
            THEN <<PlainName(pattern, "target"),
                   PlainName(pattern, "target_anechoic"),
                   PlainName(pattern, "interferer")>>
            ELSE extend[k - 1] \o per(channels[k])
    IN  extend[Len(channels)]

\* Lines 318-340: files_to_check.
files_to_check(scene, num_channels) ==
    LET channels == IF num_channels = 0 THEN <<>>
                    ELSE [i \in 1..num_channels |-> i] \o <<0>>
        pattern == scene
        per(ch) == <<ChannelName(pattern, "mixed_CH", ch),
                     ChannelName(pattern, "interferer_CH", ch),
                     ChannelName(pattern, "target_CH", ch)>>
        extend[k \in 0..Len(channels)] ==
            IF k = 0
            THEN <<PlainName(pattern, "target"),
                   PlainName(pattern, "target_anechoic"),
                   PlainName(pattern, "interferer")>>
            ELSE extend[k - 1] \o per(channels[k])
    IN  extend[Len(channels)]

check_scene_exists_last(scene, num_channels) ==
    LET files == files_to_check(scene, num_channels)
        scene_exists[k \in 0..Len(files)] ==
            IF k = 0 THEN TRUE ELSE files[k] \in fs
    IN  scene_exists[Len(files)]

\* Lines 342-345: the conjunction of os.path.exists over files_to_check.
check_scene_exists(scene, num_channels) ==
    LET files == files_to_check(scene, num_channels)
        scene_exists[k \in 0..Len(files)] ==
            IF k = 0 THEN TRUE ELSE scene_exists[k - 1] /\ files[k] \in fs
    IN  scene_exists[Len(files)]

\* ------------------------------------------------------------- initial state

\* A variable render() has not bound yet.
NoSignal == [id |-> "unbound", rows |-> 0, cols |-> 1, gain |-> <<>>]

NoArgs == [scene |-> "", interferer |-> "", snr_dB |-> 0,
           pre_samples |-> 0, post_samples |-> 0]

NoDataset == [name |-> "none"]

\* The per-render state before any render has been called.
Quiet ==
    /\ pc = "idle"
    /\ args = NoArgs
    /\ fs = {}
    /\ fs0 = {}
    /\ outputs = <<>>
    /\ written = <<>>
    /\ target = NoSignal
    /\ interferer_signal = NoSignal
    /\ snr_ref = None
    /\ target_brir = NoSignal
    /\ brirs = <<>>
    /\ idx = 0
    /\ diag = FALSE
    /\ pad_len = None
    /\ failure = ""
    /\ checked = None

renderVars == <<pc, args, fs, fs0, outputs, written, target, interferer_signal,
                snr_ref, target_brir, brirs, idx, diag, pad_len, failure,
                checked, ops_left, dataset>>

\* ------------------------------------------- the three functions on their own

\* Configurations the functions are exercised under: tenths of a second.
CallRates == {4, 10}

CallTails == {0, 2, 5}

CallPres == {0, 1, 20}

CallPosts == {0, 1, 10}

\* Ramp durations with a window of at most 4 samples at the rates above.
CallRamps == {0, 1, 2, 3, 4, 5}

\* Samples +-1 and 2, held as 16 * x.
CallSamples == {16, 32}

\* pre_samples and post_samples a caller of compute_snr passes.
CallerPres == {0, 1, 2}

CallerPosts == {0, 1, 2}

InitCalls ==
    /\ Quiet
    /\ dataset = NoDataset
    /\ ops_left = 0
    /\ probe = [op |-> "none"]
    /\ \E sr \in CallRates, tail \in CallTails, pre \in CallPres,
          post \in CallPosts :
         self = Renderer(1, sr, 5, tail, pre, post)

call_apply_ramp ==
    \E signal \in SeqsUpTo(CallSamples, MaxSigLen), ramp_duration \in CallRamps :
       /\ probe.op = "none"
       /\ IntOf(ramp_duration, self.sample_rate) <= 4
       /\ probe' = [op |-> "apply_ramp", signal |-> signal,
                    ramp_duration |-> ramp_duration,
                    out |-> apply_ramp(signal, ramp_duration)]
       /\ UNCHANGED <<self, renderVars>>

call_apply_brir ==
    \E srows \in 0..MaxSigLen, scols \in {1, 2},
       brows \in 1..MaxBrirLen, bcols \in {1, 2} :
       /\ probe.op = "none"
       /\ probe' = [op |-> "apply_brir", signal |-> Shape(srows, scols),
                    brir |-> Shape(brows, bcols),
                    out |-> apply_brir(Shape(srows, scols), Shape(brows, bcols))]
       /\ UNCHANGED <<self, renderVars>>

call_compute_snr ==
    \E trows \in 0..MaxSnrLen, nrows \in 0..MaxSnrLen,
       pre_samples \in CallerPres, post_samples \in CallerPosts :
       /\ probe.op = "none"
       /\ probe' = [op |-> "compute_snr", target |-> trows, noise |-> nrows,
                    pre_samples |-> pre_samples, post_samples |-> post_samples,
                    out |-> compute_snr([id |-> "target", rows |-> trows],
                                        [id |-> "noise", rows |-> nrows],
                                        pre_samples, post_samples)]
       /\ UNCHANGED <<self, renderVars>>

\* Each behaviour is one call on a freshly constructed Renderer.
NextCalls == call_apply_ramp \/ call_apply_brir \/ call_compute_snr

SpecCalls == InitCalls /\ [][NextCalls]_vars

\* ------------------------------------------------- claims on the functions

\* C5 as stated: for every signal S and every two-column BRIR B of length >= 1,
\* apply_brir returns a two-column signal of exactly len(S) + n_tail rows.
C5_AsStated ==
    (probe.op = "apply_brir" /\ probe.brir.cols = 2 /\ probe.brir.rows >= 1)
    => /\ probe.out.ok
       /\ probe.out.cols = 2
       /\ probe.out.rows = probe.signal.rows + self.n_tail

\* C5 amended: for a non-empty signal S and a two-column BRIR B of length >= 2,
\* apply_brir returns two columns of min(len(S) + n_tail, len(S) + len(B) - 1)
\* rows, which is len(S) + n_tail exactly when len(B) > n_tail; a two-column B of
\* length 1 is squeezed to one dimension and the call raises instead of returning.
C5_Truncates ==
    (probe.op = "apply_brir" /\ probe.brir.cols = 2)
    => LET S == probe.signal.rows
           B == probe.brir.rows
       IN  /\ B = 1 => ~probe.out.ok
           /\ (B >= 2 /\ S >= 1)
              => /\ probe.out.ok
                 /\ probe.out.cols = 2
                 /\ probe.out.rows <= S + self.n_tail
                 /\ probe.out.rows <= S + B - 1
                 /\ probe.out.rows \in {S + self.n_tail, S + B - 1}
                 /\ (probe.out.rows = S + self.n_tail) <=> (B > self.n_tail)

\* A BRIR no longer than the tail: the output is shorter than len(S) + n_tail.
C5_Witness ==
    /\ probe.op = "apply_brir"
    /\ probe.brir.cols = 2
    /\ probe.brir.rows >= 2
    /\ probe.brir.rows <= self.n_tail
    /\ probe.signal.rows >= 1
    /\ probe.out.ok
    /\ probe.out.rows < probe.signal.rows + self.n_tail

\* The number of samples left after trimming pre from the start and post from
\* the end, as C6 words it: the slice [pre:-post] for the values the caller passes.
TrimmedAsClaimed(n, pre, post) == TrimLen(n, pre, post)

\* C6 as stated: compute_snr trims by the pre_samples and post_samples its caller
\* passes, raises exactly when the two trimmed segments differ in length, and
\* otherwise returns the metric of those two segments.
C6_AsStated ==
    probe.op = "compute_snr"
    => LET t == TrimmedAsClaimed(probe.target, probe.pre_samples,
                                 probe.post_samples)
           n == TrimmedAsClaimed(probe.noise, probe.pre_samples,
                                 probe.post_samples)
       IN  /\ probe.out.ok <=> (t = n)
           /\ probe.out.ok
              => /\ probe.out.pre = probe.pre_samples
                 /\ probe.out.post = probe.post_samples
                 /\ probe.out.snr = better_ear_speechweighted_snr(
                                        Segment("target", t), Segment("noise", n))

\* C7 as stated: for every signal S of length N and every ramp duration D,
\* apply_ramp returns a signal of length N whose samples W <= i < N - W are those
\* of S, whose first and last sample are multiplied by 0, and S is not modified.
C7_AsStated ==
    probe.op = "apply_ramp"
    => LET S == probe.signal
           N == Len(S)
           W == IntOf(probe.ramp_duration, self.sample_rate)
       IN  /\ probe.out.ok
           /\ Len(probe.out.val) = N
           /\ \A i \in 1..N : (i > W /\ i <= N - W) => probe.out.val[i] = S[i]
           /\ (N >= 1 /\ W >= 1) => (probe.out.val[1] = 0 /\ probe.out.val[N] = 0)
           /\ probe.out.arg = S

\* Where apply_ramp does return (a support of C7's divergence): exactly for
\* N >= W >= 1, and for the empty signal with W <= 1; there C7's statement holds.
C7_WhereItReturns ==
    probe.op = "apply_ramp"
    => LET S == probe.signal
           N == Len(S)
           W == IntOf(probe.ramp_duration, self.sample_rate)
       IN  /\ probe.out.ok <=> ((N >= W /\ W >= 1) \/ (N = 0 /\ W <= 1))
           /\ probe.out.ok <=> RampReturns(N, W)
           /\ probe.out.ok
              => /\ Len(probe.out.val) = N
                 /\ \A i \in 1..N :
                      (i > W /\ i <= N - W) => probe.out.val[i] = S[i]
                 /\ N >= 1 => (probe.out.val[1] = 0 /\ probe.out.val[N] = 0)
                 /\ probe.out.arg = S

\* ------------------------------------------------------------ render(), steps

\* Defaults of Renderer.__init__, in tenths of a second.
ramp_duration == 5

tail_duration == 2

pre_duration == 20

post_duration == 10

\* The sample rate the renders are configured with.
RenderRates == {10}

Resting == {"idle", "written", "failed", "crashed"}

\* render() is called: lines 217-243.
render_load ==
    /\ pc \in Resting
    /\ ops_left > 0
    /\ \E scene \in dataset.scenes, interferer \in dataset.interferers,
          snr_dB \in dataset.snrs, window \in dataset.windows,
          offset \in dataset.offsets, target_file \in dataset.targets,
          interferer_file \in dataset.interferer_files :
         LET r == load(target_file, interferer_file, interferer, offset,
                       window[1], window[2])
         IN  /\ args' = [scene |-> scene, interferer |-> interferer,
                         snr_dB |-> snr_dB, pre_samples |-> window[1],
                         post_samples |-> window[2]]
             /\ pc' = IF r.ok THEN "channels" ELSE "failed"
             /\ failure' = IF r.ok THEN "" ELSE r.err
             /\ diag' = r.diag
             /\ target' = IF r.ok THEN r.target ELSE NoSignal
             /\ interferer_signal' =
                    IF r.ok THEN r.interferer_signal ELSE NoSignal
             /\ outputs' =
                    IF r.ok
                    THEN <<Output(PlainName(scene, "target"), r.target),
                           Output(PlainName(scene, "interferer"),
                                  r.interferer_signal)>>
                    ELSE <<>>
    /\ written' = <<>>
    /\ snr_ref' = None
    /\ target_brir' = NoSignal
    /\ brirs' = <<>>
    /\ idx' = 1
    /\ pad_len' = None
    /\ checked' = None
    /\ fs0' = fs
    /\ ops_left' = ops_left - 1
    /\ UNCHANGED <<self, dataset, probe, fs>>

\* One pass of the loop of line 246.
render_channel ==
    /\ pc = "channels"
    /\ idx <= Len(self.channels)
    /\ \E target_brir_file \in dataset.target_brirs,
          interferer_brir_file \in dataset.interferer_brirs :
         LET r == channel_pass(self.channels[idx], target_brir_file,
                               interferer_brir_file)
         IN  IF r.ok
             THEN /\ pc' = "channels"
                  /\ idx' = idx + 1
                  /\ outputs' = outputs \o r.outputs
                  /\ snr_ref' = r.snr_ref
                  /\ target_brir' = r.target_brir
                  /\ brirs' = Append(brirs, r.brir)
                  /\ failure' = failure
             ELSE /\ pc' = "failed"
                  /\ failure' = r.err
                  /\ brirs' = IF r.err = "compute_snr"
                              THEN Append(brirs, r.brir) ELSE brirs
                  /\ UNCHANGED <<idx, outputs, snr_ref, target_brir>>
    /\ UNCHANGED <<self, dataset, probe, args, fs, fs0, written, target,
                   interferer_signal, diag, pad_len, checked, ops_left>>

\* Lines 285-298, once the loop has ended.
render_anechoic ==
    /\ pc = "channels"
    /\ idx > Len(self.channels)
    /\ \E ch0_file \in dataset.target_brirs,
          anechoic_file \in dataset.anechoic_brirs :
         LET r == anechoic(ch0_file, anechoic_file)
         IN  IF r.ok
             THEN /\ pc' = "write"
                  /\ outputs' = Append(outputs, r.output)
                  /\ target_brir' = r.target_brir
                  /\ brirs' = r.brirs
                  /\ pad_len' = r.pad_len
                  /\ failure' = failure
             ELSE /\ pc' = "failed"
                  /\ failure' = r.err
                  /\ pad_len' = IF r.err \in {"AssertionError",
                                              "UnboundLocalError"}
                                THEN r.pad_len ELSE pad_len
                  /\ brirs' = IF r.err \in {"AssertionError",
                                            "UnboundLocalError"}
                              THEN r.brirs ELSE brirs
                  /\ UNCHANGED <<outputs, target_brir>>
    /\ UNCHANGED <<self, dataset, probe, args, fs, fs0, written, target,
                   interferer_signal, snr_ref, idx, diag, checked, ops_left>>

\* One pass of the loop of line 301.
render_write ==
    /\ write_turn
    /\ LET output == outputs[Len(written) + 1]
       IN  /\ fs' = write_signal(fs, output.name, output.signal,
                                 self.sample_rate)
           /\ written' = Append(written, output.name)
           /\ pc' = IF pc = "write" /\ Len(written) + 1 = Len(outputs)
                    THEN "written" ELSE pc
    /\ UNCHANGED <<self, dataset, probe, args, fs0, outputs, target,
                   interferer_signal, snr_ref, target_brir, brirs, idx, diag,
                   pad_len, failure, checked, ops_left>>

\* The process dies inside render(): what is on disk stays.
crash ==
    /\ pc \in {"channels", "write"}
    /\ pc' = "crashed"
    /\ UNCHANGED <<self, dataset, probe, args, fs, fs0, outputs, written,
                   target, interferer_signal, snr_ref, target_brir, brirs, idx,
                   diag, pad_len, failure, checked, ops_left>>

\* What a finished render() leaves behind is dropped.
Forgotten ==
    /\ pc' = "idle"
    /\ args' = NoArgs
    /\ fs0' = fs'
    /\ outputs' = <<>>
    /\ written' = <<>>
    /\ target' = NoSignal
    /\ interferer_signal' = NoSignal
    /\ snr_ref' = None
    /\ target_brir' = NoSignal
    /\ brirs' = <<>>
    /\ idx' = 0
    /\ diag' = FALSE
    /\ pad_len' = None
    /\ failure' = ""
    /\ checked' = None

\* A batch driver calls check_scene_exists between renders, with the
\* num_channels its Renderer was constructed with.
check ==
    /\ pc \in Resting
    /\ checked = None
    /\ \E scene \in dataset.scenes, num_channels \in {self.num_channels} :
         checked' = Some([scene |-> scene, num_channels |-> num_channels,
                          result |-> check_scene_exists(scene, num_channels),
                          before |-> fs])
    /\ UNCHANGED <<self, dataset, probe, pc, args, fs, fs0, outputs, written,
                   target, interferer_signal, snr_ref, target_brir, brirs, idx,
                   diag, pad_len, failure, ops_left>>

\* An output file is deleted between renders.
delete ==
    /\ pc \in Resting
    /\ ops_left > 0
    /\ \E f \in fs : fs' = fs \ {f}
    /\ ops_left' = ops_left - 1
    /\ Forgotten
    /\ UNCHANGED <<self, dataset, probe>>

\* A Renderer with another num_channels is constructed over the same paths.
construct ==
    /\ pc \in Resting
    /\ \E num_channels \in 0..MaxChannels :
         /\ num_channels # self.num_channels
         /\ self' = Renderer(num_channels, self.sample_rate, ramp_duration,
                             tail_duration, pre_duration, post_duration)
    /\ fs' = fs
    /\ Forgotten
    /\ UNCHANGED <<dataset, probe, ops_left>>

\* ------------------------------------------------------ the two render models

GoodRate == CHOOSE sr \in RenderRates : TRUE

\* A well-formed input tree and two scenes, for the storage behaviours.
StoreDataset ==
    [name |-> "store",
     scenes |-> {"S06001"},
     interferers |-> {"CIN_fan_014"},
     snrs |-> {3},
     windows |-> {<<2, 1>>},
     offsets |-> {0},
     targets |-> {WavFile(TRUE, 1, GoodRate, 4)},
     interferer_files |-> {WavFile(TRUE, 1, GoodRate, 64)},
     target_brirs |-> {WavFile(TRUE, 2, GoodRate, 4),
                       WavFile(FALSE, 2, GoodRate, 4)},
     interferer_brirs |-> {WavFile(TRUE, 2, GoodRate, 4)},
     anechoic_brirs |-> {WavFile(TRUE, 2, GoodRate, 2)}]

\* Input trees of every kind and one scene, for one render.
WideDataset ==
    [name |-> "wide",
     scenes |-> {"S06001"},
     interferers |-> {"n1", "it_0042"},
     snrs |-> {0, 6},
     windows |-> {<<2, 1>>,
                  <<IntOf(pre_duration, GoodRate),
                    IntOf(post_duration, GoodRate)>>},
     offsets |-> {0, 1},
     targets |-> {WavFile(TRUE, 1, GoodRate, 4), WavFile(TRUE, 1, GoodRate, 5),
                  WavFile(FALSE, 1, GoodRate, 4), WavFile(TRUE, 1, 4, 4)},
     interferer_files |-> {WavFile(TRUE, 1, GoodRate, 4),
                           WavFile(TRUE, 1, GoodRate, 6),
                           WavFile(TRUE, 1, GoodRate, 64),
                           WavFile(FALSE, 1, GoodRate, 64)},
     target_brirs |-> {WavFile(TRUE, 2, GoodRate, 4),
                       WavFile(TRUE, 2, GoodRate, 2),
                       WavFile(TRUE, 2, GoodRate, 1),
                       WavFile(TRUE, 1, GoodRate, 4),
                       WavFile(FALSE, 2, GoodRate, 4),
                       WavFile(TRUE, 2, 4, 4)},
     interferer_brirs |-> {WavFile(TRUE, 2, GoodRate, 4),
                           WavFile(TRUE, 2, GoodRate, 2),
                           WavFile(TRUE, 2, 4, 4)},
     anechoic_brirs |-> {WavFile(TRUE, 2, GoodRate, 2),
                         WavFile(TRUE, 2, GoodRate, 4),
                         WavFile(FALSE, 2, GoodRate, 2)}]

InitAnyRenderer ==
    \E num_channels \in 0..MaxChannels, sr \in RenderRates :
       self = Renderer(num_channels, sr, ramp_duration, tail_duration,
                       pre_duration, post_duration)

\* One render() of a new Renderer into an empty output directory.
InitRender ==
    /\ Quiet
    /\ probe = [op |-> "none"]
    /\ InitAnyRenderer
    /\ dataset = WideDataset
    /\ ops_left = 1

NextRender ==
    render_load \/ render_channel \/ render_anechoic \/ render_write \/ crash

SpecRender == InitRender /\ [][NextRender]_vars

\* Renders, crashes, retries, deletions and checks over one output directory.
Init ==
    /\ Quiet
    /\ probe = [op |-> "none"]
    /\ InitAnyRenderer
    /\ dataset = StoreDataset
    /\ ops_left = MaxOps

Next ==
    \/ render_load
    \/ render_channel
    \/ render_anechoic
    \/ render_write
    \/ crash
    \/ check
    \/ delete
    \/ construct

Spec == Init /\ [][Next]_vars

\* ----------------------------------------------------- claims on render()

Range(seq) == {seq[i] : i \in 1..Len(seq)}

\* The artifacts C1 names for a scene and num_channels N: three per scene and
\* three per channel of 1..N and 0.
ClaimedFiles(scene, N) ==
    {<<scene, "target">>, <<scene, "interferer">>, <<scene, "target_anechoic">>}
    \cup {<<scene, role, c>> :
            role \in {"mixed_CH", "target_CH", "interferer_CH"},
            c \in IF N = 0 THEN {} ELSE (1..N) \cup {0}}

\* C1: the channel sequence is [] for N = 0 and [1, ..., N, 0] otherwise, and a
\* render() that completes has written exactly the 3 + 3 * |channels| claimed
\* files, each once, and no other file.
C1_Artifacts ==
    LET N == self.num_channels
    IN  /\ Len(self.channels) = IF N = 0 THEN 0 ELSE N + 1
        /\ \A i \in 1..Len(self.channels) :
             self.channels[i] = IF i <= N THEN i ELSE 0
        /\ pc = "written"
           => /\ Len(written) = 3 + 3 * Len(self.channels)
              /\ Cardinality(Range(written)) = Len(written)
              /\ Range(written) = ClaimedFiles(args.scene, N)
              /\ fs = fs0 \cup ClaimedFiles(args.scene, N)

C1_Witness ==
    /\ pc = "written"
    /\ self.num_channels >= 2
    /\ Len(written) >= 12

\* The interferer-at-ear outputs of a render, and the mixes.
ScaledOutputs ==
    {i \in 1..Len(outputs) :
       Len(outputs[i].name) = 3 /\ outputs[i].name[2] = "interferer_CH"}

MixedOutputs ==
    {i \in 1..Len(outputs) :
       Len(outputs[i].name) = 3 /\ outputs[i].name[2] = "mixed_CH"}

\* C2: within one render() the reference gain is the one computed from the first
\* channel's (channel 1's) target-at-ear / interferer-at-ear pair, and every
\* channel's interferer, the first's and channel 0's included, is multiplied by
\* that gain and by 10 ** (-snr_dB / 20).
C2_OneGain ==
    /\ \A i \in ScaledOutputs :
         LET g == outputs[i].signal.gain
         IN  /\ Len(g) = 2
             /\ g[1][1] = "snr"
             /\ g[1][2].of = <<"target_at_ear", 1>>
             /\ g[1][3].of = <<"interferer_at_ear", 1>>
             /\ g[2] = <<"10**", 0 - args.snr_dB, 20>>
             /\ snr_ref = <<g[1]>>
             /\ outputs[i].signal.id = <<"interferer_at_ear", outputs[i].name[3]>>
    /\ \A i \in MixedOutputs :
         /\ outputs[i].signal.parts[2].gain[1] \in Range(snr_ref)
         /\ outputs[i].signal.parts[1].gain = <<>>
    /\ snr_ref # None <=> ScaledOutputs # {}

C2_Witness ==
    /\ pc = "written"
    /\ Cardinality(ScaledOutputs) >= 3
    /\ \E i \in ScaledOutputs : outputs[i].name[3] = 0
    /\ \E i \in ScaledOutputs : outputs[i].name[3] = 2

\* A scene no render is called for.
UnrenderedScenes == {"S06002"}

\* C3: check_scene_exists is true exactly when every file render() writes for
\* the scene with the same num_channels exists; so it is true right after a
\* completed render and false once one of the files is deleted; and a call of it
\* leaves the files as they were.
C3_CheckIffRendered ==
    /\ \A scene \in dataset.scenes \cup UnrenderedScenes, n \in 0..MaxChannels :
         check_scene_exists(scene, n) <=> (render_names(scene, n) \subseteq fs)
    /\ pc = "written"
       => /\ Range(written) = render_names(args.scene, self.num_channels)
          /\ check_scene_exists(args.scene, self.num_channels)
    /\ \A c \in Range(checked) :
         /\ fs = c.before
         /\ c.result <=> (render_names(c.scene, c.num_channels) \subseteq fs)
         /\ (pc = "written" /\ c.scene = args.scene
             /\ c.num_channels = self.num_channels) => c.result

\* A complete scene, one file deleted, and the check answering false.
C3_Witness ==
    /\ pc = "idle"
    /\ \E c \in Range(checked) :
         /\ ~c.result
         /\ \E f \in render_names(c.scene, c.num_channels) :
              /\ f \notin fs
              /\ render_names(c.scene, c.num_channels) \ {f} \subseteq fs
         /\ c.num_channels >= 1

\* C4 as stated: after a render() interrupted before its last file was written,
\* check_scene_exists for that scene and num_channels is false, whatever renders,
\* crashes and retries came before.
C4_AsStated ==
    pc = "crashed" => ~check_scene_exists(args.scene, self.num_channels)

\* C4 amended: after such an interrupted render(), check_scene_exists is false
\* exactly when one of the scene's files that the render had not yet written was
\* also missing when the render was called - so always when none of them existed
\* then - and true when all of those were already there.
C4_PartialSet ==
    pc = "crashed"
    => LET names == render_names(args.scene, self.num_channels)
           result == check_scene_exists(args.scene, self.num_channels)
       IN  /\ Range(written) \subseteq names
           /\ Range(written) # names
           /\ (\E f \in names : f \notin fs0 /\ f \notin Range(written))
              => ~result
           /\ (names \cap fs0 = {}) => ~result
           /\ (\A f \in names : f \in fs0 \/ f \in Range(written)) => result

\* A first render of a scene interrupted after some of its files were written.
C4_Witness ==
    /\ pc = "crashed"
    /\ render_names(args.scene, self.num_channels) \cap fs0 = {}
    /\ Len(written) >= 2
    /\ self.num_channels >= 1

\* C8: a render() that raised while loading, convolving or estimating the gain
\* has written nothing and has left the output files as they were; it is not
\* resumed, and a render() that reached Written raised nothing.
C8_NothingWritten ==
    /\ failure # "" <=> pc = "failed"
    /\ pc = "failed" => (written = <<>> /\ fs = fs0)
    /\ Len(written) > 0 => pc \in {"write", "written", "crashed"}
    /\ Len(written) > 0 => Len(outputs) = 3 + 3 * Len(self.channels)

\* A failure in a later pass of the channel loop, with outputs already listed.
C8_Witness ==
    /\ pc = "failed"
    /\ failure = "compute_snr" \/ failure = "Unable to read"
    /\ Len(outputs) >= 5
    /\ written = <<>>

\* The target BRIR render() read for a channel.
BrirOf(channel) ==
    {brirs[i].rows : i \in {j \in 1..Len(brirs) : brirs[j].channel = channel}}

\* C9 as stated: the anechoic impulse response is padded to the length of
\* channel 1's target BRIR when the channel sequence is non-empty, and to that of
\* channel 0's when it is empty.
C9_AsStated ==
    \A n \in Range(pad_len) :
       IF self.channels # <<>> THEN BrirOf(1) = {n} ELSE BrirOf(0) = {n}

\* C9 amended: the anechoic impulse response is padded to the length of the
\* target BRIR of channel 0, which is the last channel of a non-empty sequence
\* and the one loaded for the purpose when the sequence is empty.
C9_LastChannel ==
    \A n \in Range(pad_len) : BrirOf(0) = {n}

\* Channels 1 and 0 with target BRIRs of different lengths, and a built anechoic.
C9_Witness ==
    /\ pc \in {"write", "written"}
    /\ pad_len # None
    /\ self.channels # <<>>
    /\ BrirOf(1) # BrirOf(0)

\* C10 as stated: render() logs its note exactly when the padded target and the
\* loaded interferer differ in length, and such a difference does not abort it.
C10_AsStated ==
    /\ interferer_signal.id # "unbound"
       => (diag <=> target.rows # interferer_signal.rows)
    /\ (failure = "compute_snr" /\ brirs[Len(brirs)].rows = brirs[Len(brirs)].irows)
       => target.rows = interferer_signal.rows

====
